---- MODULE Spec2Model ----
(***************************************************************************)
(* Retention selection of backup-policy: RetentionPolicyApplier            *)
(* (src/retention_policy_applier.py) over BackupFile / RetentionPolicy     *)
(* (src/data.py).  Timestamps and intervals are whole seconds (naturals);  *)
(* a BackupFile is identified by its position in the caller's collection.  *)
(* One step of the model is one statement-level step of apply: the queue   *)
(* initialisation, one evaluation of the for-loop head of                  *)
(* _apply_single_policy, or one pull of _find_backup_to_keep.              *)
(***************************************************************************)
EXTENDS Integers, Sequences, FiniteSets, TLC

\* ---------------------------------------------------------------- bounds
MaxRecords == 4
MaxTime == 3
MaxTiers == 2
MaxInterval == 3
MaxKeep == 2
MaxCalls == 2
MaxOther == 2
MaxConcRecords == 2
MaxConcTime == 1
MaxDiskFiles == 3
MaxDiskTime == 3

\* ------------------------------------------------------------ data model
\* RetentionPolicy: interval, keep_count.  obj is the identity of the Python
\* object (two positions of a list hold the same object iff obj is equal).
RetentionPolicy(o, i, k) == [obj |-> o, interval |-> i, keep_count |-> k]

\* Variant: math.ceil(a / b) instead of round.
PyCeil(a, b) == 0 - ((0 - a) \div b)

\* Python round(a / b) for integers a and b > 0: round half to even.
PyRound(a, b) ==
    LET q == a \div b
        r == a % b
    IN  IF 2 * r < b THEN q
        ELSE IF 2 * r > b THEN q + 1
        ELSE IF q % 2 = 0 THEN q ELSE q + 1

\* Variant: sorted ascending and then reversed, which reverses the ties.
SortedBackupsTiesReversed(bs) ==
    LET n == Len(bs)
        Before(j, i) == \/ bs[j] > bs[i]
                        \/ (bs[j] = bs[i] /\ j > i)
        Rank(i) == 1 + Cardinality({j \in 1..n : Before(j, i)})
    IN  [p \in 1..n |-> CHOOSE i \in 1..n : Rank(i) = p]

\* Variant: reverse=True omitted, oldest first.
SortedBackupsAscending(bs) ==
    LET n == Len(bs)
        Before(j, i) == \/ bs[j] < bs[i]
                        \/ (bs[j] = bs[i] /\ j < i)
        Rank(i) == 1 + Cardinality({j \in 1..n : Before(j, i)})
    IN  [p \in 1..n |-> CHOOSE i \in 1..n : Rank(i) = p]

\* sorted(backups, key=timestamp, reverse=True): stable, newest first.
\* The result is the sequence of input positions in processing order.
SortedBackups(bs) ==
    LET n == Len(bs)
        Before(j, i) == \/ bs[j] > bs[i]
                        \/ (bs[j] = bs[i] /\ j < i)
        Rank(i) == 1 + Cardinality({j \in 1..n : Before(j, i)})
    IN  [p \in 1..n |-> CHOOSE i \in 1..n : Rank(i) = p]

\* `not self._backup_queue`: queue.Queue defines neither __bool__ nor __len__,
\* so the object is always truthy and the early return is never taken.
QueueIsFalsy(q) == FALSE

\* Lines 42-44: a queue that is not empty is cleared.
ClearQueue(q) == IF q # <<>> THEN <<>> ELSE q

\* Variant: the last kept timestamp survives the queue initialisation.
KeepLastBackupDatetime(last) == last

\* self._last_backup_datetime = None at the end of _initialize_backup_queue.
\* None is the empty sequence, a datetime t is <<t>>.
ResetLastBackupDatetime(last) == <<>>

\* Variant: only the first kept backup is remembered.
LastKeptFirstOnly(last, t) == IF last = <<>> THEN <<t>> ELSE last

\* self._last_backup_datetime = backup.timestamp after a backup is returned.
LastKept(last, t) == <<t>>

\* Variant: no tier is treated as the last one.
IsLastPolicyNever(ps, k) == FALSE

\* is_last_policy = policy is self._retention_policies[-1]
IsLastPolicy(ps, k) == ps[k].obj = ps[Len(ps)].obj

\* Variant: one repetition too many.
RepetitionsPlusOne(policy) == policy.keep_count + 1

\* range(policy.keep_count): the number of repetitions of a bounded tier.
Repetitions(policy) == policy.keep_count

\* Variant: the active tier's interval is used as the base unit.
MinIntervalOfPolicy(ps, policy) == policy.interval

\* min_interval = self._retention_policies[0].interval
MinInterval(ps, policy) == ps[1].interval

\* Variant: the division is hoisted out of the while-loop.
DivisionRaisesHoisted(ps, policy, q, last) == MinInterval(ps, policy) = 0

\* The divisions of lines 71-72 raise ZeroDivisionError; they are evaluated
\* only for a backup pulled while a last kept timestamp exists.
DivisionRaises(ps, policy, q, last) ==
    q # <<>> /\ last # <<>> /\ MinInterval(ps, policy) = 0

\* Variant: a marked backup ends the repetition of the tier and uses it up.
AfterMarkReturns(n) == [pc |-> "loop", slot |-> n + 1]

\* Lines 74-75: after mark_to_delete the while-loop continues inside the same
\* repetition, so the repetition count of the tier is as it was.
AfterMark(n) == [pc |-> "find", slot |-> n]

\* Variant: the comparison is inverted.
TooCloseInverted(past, required) == past > required

\* Variant: <= instead of <.
TooCloseOrEqual(past, required) == past <= required

\* Variant: None does not end the for-loop of the tier.
ContinueOnNone(k) == k

\* `if backup is None: break`: the for-loop of tier k ends, the next tier follows.
BreakOnNone(k) == k + 1

\* round(intervals_past) < round(required_intervals_to_pass)
TooClose(past, required) == past < required

\* ------------------------------------------------------------ fixture
\* src/retention_policy_applier_test.py: seconds since 2025-11-30 00:00:00.
T(d, h, m, s) == d * 86400 + h * 3600 + m * 60 + s

real_backup_names == <<
    <<T(1,3,39,17), TRUE>>,  <<T(1,3,24,17), TRUE>>,  <<T(1,3,9,17), FALSE>>,
    <<T(1,2,54,17), FALSE>>, <<T(1,2,39,17), FALSE>>, <<T(1,2,24,17), TRUE>>,
    <<T(1,2,9,17), FALSE>>,  <<T(1,1,54,17), FALSE>>, <<T(1,1,39,17), FALSE>>,
    <<T(1,1,24,17), TRUE>>,  <<T(1,1,9,17), FALSE>>,  <<T(1,0,54,17), FALSE>>,
    <<T(1,0,39,17), FALSE>>, <<T(1,0,24,17), TRUE>>,  <<T(1,0,9,17), FALSE>>,
    <<T(0,23,54,17), FALSE>>, <<T(0,23,39,17), FALSE>>, <<T(0,23,24,16), FALSE>>,
    <<T(0,23,9,16), FALSE>>, <<T(0,22,54,16), FALSE>>, <<T(0,22,39,16), FALSE>>,
    <<T(0,21,39,4), FALSE>>, <<T(0,21,24,4), FALSE>>, <<T(0,21,9,4), FALSE>>,
    <<T(0,20,54,4), FALSE>>, <<T(0,20,3,56), TRUE>>,  <<T(0,19,48,56), FALSE>>,
    <<T(0,19,33,56), FALSE>>, <<T(0,19,8,46), FALSE>>, <<T(0,18,53,46), FALSE>>,
    <<T(0,18,38,46), FALSE>>, <<T(0,8,51,14), TRUE>>,  <<T(0,8,36,14), FALSE>> >>

real_backups == [i \in 1..Len(real_backup_names) |-> real_backup_names[i][1]]

retention_policy == <<
    RetentionPolicy(1, T(0,0,15,0), 2),
    RetentionPolicy(2, T(0,1,0,0), 3),
    RetentionPolicy(3, T(0,4,0,0), 2),
    RetentionPolicy(4, T(1,0,0,0), 7) >>

\* ------------------------------------------------------------ inputs
RECURSIVE SeqsUpTo(_, _)
SeqsUpTo(S, n) ==
    IF n = 0 THEN {<<>>}
    ELSE LET shorter == SeqsUpTo(S, n - 1)
         IN  shorter \cup {Append(s, x) : s \in {t \in shorter : Len(t) = n - 1}, x \in S}

\* Collections of backups in caller order (any order, ties allowed).
BackupLists == SeqsUpTo(0..MaxTime, MaxRecords)

\* Tier lists: every position a distinct object, or a position holding the
\* same object as an earlier one (then necessarily with the same fields).
WellFormedObjs(ps) ==
    \A i \in 1..Len(ps) :
        /\ ps[i].obj \in 1..i
        /\ ps[ps[i].obj].obj = ps[i].obj
        /\ ps[ps[i].obj].interval = ps[i].interval
        /\ ps[ps[i].obj].keep_count = ps[i].keep_count

PolicyLists ==
    LET Objs == [obj : 1..MaxTiers, interval : 0..MaxInterval, keep_count : 0..MaxKeep]
    IN  {ps \in SeqsUpTo(Objs, MaxTiers) : WellFormedObjs(ps)}

\* ------------------------------------------------------------ state
VARIABLES
    retention_policies,     \* self._retention_policies
    backups,                \* the caller's collection: timestamps by position
    should_delete,          \* BackupFile._should_delete by position
    backup_queue,           \* self._backup_queue: positions, front first
    last_backup_datetime,   \* self._last_backup_datetime: <<>> or <<t>>
    pc,                     \* "idle", "loop", "find", "done", "raised"
    policy_idx,             \* index of the tier of the running for-loop of apply
    slot,                   \* repetitions completed in _apply_single_policy
    verdict,                \* history: outcome of each pull of the running call
    admitted,               \* history: tier index active when the record was pulled
    calls,                  \* number of apply calls started
    before,                 \* history: should_delete when the running call started
    threads,                \* concurrent apply calls: position, tier, slot, applier
    appliers,               \* the appliers of concurrent calls: queue and last kept
    manager,                \* the BackupManager object and the position of its methods
    disk,                   \* the backup directory: the files and which still exist
    earlier                 \* history: the earlier collections given to this applier

\* The state of the concurrent calls and of the BackupManager, and the history
\* of earlier collections; a call of one applier on one collection leaves them
\* alone.
others == <<threads, appliers, manager, disk, earlier>>

vars == <<retention_policies, backups, should_delete, backup_queue,
          last_backup_datetime, pc, policy_idx, slot, verdict, admitted,
          calls, before, threads, appliers, manager, disk, earlier>>

Records == 1..Len(backups)

Init ==
    /\ \/ /\ retention_policies \in PolicyLists
          /\ backups \in BackupLists
       \/ /\ retention_policies = retention_policy
          /\ backups = real_backups
    /\ should_delete = [i \in Records |-> FALSE]
    /\ backup_queue = <<>>
    /\ last_backup_datetime = <<>>
    /\ pc = "idle"
    /\ policy_idx = 0
    /\ slot = 0
    /\ verdict = [i \in Records |-> "Undecided"]
    /\ admitted = [i \in Records |-> 0]
    /\ calls = 0
    /\ before = should_delete
    /\ threads = <<>>
    /\ appliers = <<>>
    /\ manager = <<>>
    /\ disk = <<>>
    /\ earlier = <<>>

\* ------------------------------------------------------------ operations
\* apply, lines 25-33: _initialize_backup_queue (clear a non-empty queue, put
\* the sorted backups, reset the last kept timestamp), the truthiness test and
\* the entry of the for-loop over the policies.  fresh = TRUE is a call on a
\* newly constructed applier (__init__), fresh = FALSE a call on the same one.
Apply ==
    /\ pc \in {"idle", "done", "raised"}
    /\ calls < MaxCalls
    /\ \E fresh \in BOOLEAN :
        LET q0 == IF fresh THEN <<>> ELSE backup_queue
            l0 == IF fresh THEN <<>> ELSE last_backup_datetime
            q1 == ClearQueue(q0) \o SortedBackups(backups)
        IN  /\ (calls = 0 => fresh)
            /\ backup_queue' = q1
            /\ last_backup_datetime' = ResetLastBackupDatetime(l0)
            /\ pc' = IF QueueIsFalsy(q1) THEN "done" ELSE "loop"
    /\ policy_idx' = 1
    /\ slot' = 0
    /\ verdict' = [i \in Records |-> "Undecided"]
    /\ admitted' = [i \in Records |-> 0]
    /\ calls' = calls + 1
    /\ before' = should_delete
    /\ UNCHANGED <<retention_policies, backups, should_delete>>
    /\ UNCHANGED others

\* apply, line 33: the policies are exhausted, apply returns.
Return ==
    /\ pc = "loop"
    /\ policy_idx > Len(retention_policies)
    /\ pc' = "done"
    /\ UNCHANGED <<retention_policies, backups, should_delete, backup_queue,
                   last_backup_datetime, policy_idx, slot, verdict, admitted,
                   calls, before>>
    /\ UNCHANGED others

\* _apply_single_policy, lines 55-57: the head of the for-loop.  A tier that is
\* not the last object runs range(keep_count); the last one runs count(0).
ApplySinglePolicy ==
    /\ pc = "loop"
    /\ policy_idx <= Len(retention_policies)
    /\ LET policy == retention_policies[policy_idx]
           exhausted == /\ ~IsLastPolicy(retention_policies, policy_idx)
                        /\ slot >= Repetitions(policy)
       IN  IF exhausted
           THEN /\ policy_idx' = policy_idx + 1
                /\ slot' = 0
                /\ pc' = "loop"
           ELSE /\ pc' = "find"
                /\ UNCHANGED <<policy_idx, slot>>
    /\ UNCHANGED <<retention_policies, backups, should_delete, backup_queue,
                   last_backup_datetime, verdict, admitted, calls, before>>
    /\ UNCHANGED others

\* _find_backup_to_keep, line 65 and 78 with lines 58-59: the queue is empty,
\* None is returned and the for-loop of this tier breaks.
QueueExhausted ==
    /\ pc = "find"
    /\ backup_queue = <<>>
    /\ policy_idx' = BreakOnNone(policy_idx)
    /\ slot' = 0
    /\ pc' = "loop"
    /\ UNCHANGED <<retention_policies, backups, should_delete, backup_queue,
                   last_backup_datetime, verdict, admitted, calls, before>>
    /\ UNCHANGED others

\* _find_backup_to_keep, lines 66-69 with line 60: the first backup pulled in
\* the call is returned and becomes the last kept one.
KeepNewest ==
    /\ pc = "find"
    /\ backup_queue # <<>>
    /\ last_backup_datetime = <<>>
    /\ LET backup == Head(backup_queue)
       IN  /\ backup_queue' = Tail(backup_queue)
           /\ last_backup_datetime' = LastKept(last_backup_datetime, backups[backup])
           /\ verdict' = [verdict EXCEPT ![backup] = "Keep"]
           /\ admitted' = [admitted EXCEPT ![backup] = policy_idx]
    /\ slot' = slot + 1
    /\ pc' = "loop"
    /\ UNCHANGED <<retention_policies, backups, should_delete, policy_idx,
                   calls, before>>
    /\ UNCHANGED others

\* _find_backup_to_keep, lines 66-72: a backup is pulled and the division by a
\* zero first-tier interval raises ZeroDivisionError out of apply.
RaiseZeroDivision ==
    /\ pc = "find"
    /\ DivisionRaises(retention_policies, retention_policies[policy_idx],
                      backup_queue, last_backup_datetime)
    /\ backup_queue' = IF backup_queue = <<>> THEN <<>> ELSE Tail(backup_queue)
    /\ pc' = "raised"
    /\ UNCHANGED <<retention_policies, backups, should_delete,
                   last_backup_datetime, policy_idx, slot, verdict, admitted,
                   calls, before>>
    /\ UNCHANGED others

\* Lines 71-73 for the backup at the front of the queue.
IntervalsPast(backup) ==
    PyRound(last_backup_datetime[1] - backups[backup],
            MinInterval(retention_policies, retention_policies[policy_idx]))

RequiredIntervalsToPass ==
    PyRound(retention_policies[policy_idx].interval,
            MinInterval(retention_policies, retention_policies[policy_idx]))

\* _find_backup_to_keep, lines 66-75: the backup is too close to the last kept
\* one; it is marked and the while-loop continues.
MarkToDelete ==
    /\ pc = "find"
    /\ backup_queue # <<>>
    /\ last_backup_datetime # <<>>
    /\ ~DivisionRaises(retention_policies, retention_policies[policy_idx],
                       backup_queue, last_backup_datetime)
    /\ MinInterval(retention_policies, retention_policies[policy_idx]) # 0
    /\ LET backup == Head(backup_queue)
       IN  /\ TooClose(IntervalsPast(backup), RequiredIntervalsToPass)
           /\ backup_queue' = Tail(backup_queue)
           /\ should_delete' = [should_delete EXCEPT ![backup] = TRUE]
           /\ verdict' = [verdict EXCEPT ![backup] = "Delete"]
           /\ admitted' = [admitted EXCEPT ![backup] = policy_idx]
    /\ pc' = AfterMark(slot).pc
    /\ slot' = AfterMark(slot).slot
    /\ UNCHANGED <<retention_policies, backups, last_backup_datetime,
                   policy_idx, calls, before>>
    /\ UNCHANGED others

\* _find_backup_to_keep, lines 66-76 with line 60: the backup is far enough;
\* it is returned and becomes the last kept one.
KeepBackup ==
    /\ pc = "find"
    /\ backup_queue # <<>>
    /\ last_backup_datetime # <<>>
    /\ ~DivisionRaises(retention_policies, retention_policies[policy_idx],
                       backup_queue, last_backup_datetime)
    /\ MinInterval(retention_policies, retention_policies[policy_idx]) # 0
    /\ LET backup == Head(backup_queue)
       IN  /\ ~TooClose(IntervalsPast(backup), RequiredIntervalsToPass)
           /\ backup_queue' = Tail(backup_queue)
           /\ last_backup_datetime' = LastKept(last_backup_datetime, backups[backup])
           /\ verdict' = [verdict EXCEPT ![backup] = "Keep"]
           /\ admitted' = [admitted EXCEPT ![backup] = policy_idx]
    /\ slot' = slot + 1
    /\ pc' = "loop"
    /\ UNCHANGED <<retention_policies, backups, should_delete, policy_idx,
                   calls, before>>
    /\ UNCHANGED others

Next ==
    \/ Apply
    \/ Return
    \/ ApplySinglePolicy
    \/ QueueExhausted
    \/ KeepNewest
    \/ RaiseZeroDivision
    \/ MarkToDelete
    \/ KeepBackup

Spec == Init /\ [][Next]_vars

\* ------------------------------------------------------------ one call as a function
\* A call of apply as a record: its position (pc, policy_idx, slot), the
\* applier's queue and last kept timestamp, and the records it has marked and
\* kept.  CallStep is one step of the call: the same lines as the actions
\* Return, ApplySinglePolicy, QueueExhausted, KeepNewest, RaiseZeroDivision,
\* MarkToDelete and KeepBackup, on timestamps ts.
CallStep(ps, ts, c) ==
    IF c.pc = "loop"
    THEN IF c.policy_idx > Len(ps)
         THEN [c EXCEPT !.pc = "done"]
         ELSE IF ~IsLastPolicy(ps, c.policy_idx) /\ c.slot >= Repetitions(ps[c.policy_idx])
              THEN [c EXCEPT !.policy_idx = @ + 1, !.slot = 0]
              ELSE [c EXCEPT !.pc = "find"]
    ELSE IF DivisionRaises(ps, ps[c.policy_idx], c.queue, c.last)
         THEN [c EXCEPT !.pc = "raised",
                        !.queue = IF @ = <<>> THEN <<>> ELSE Tail(@)]
         ELSE IF c.queue = <<>>
              THEN [c EXCEPT !.policy_idx = BreakOnNone(@), !.slot = 0, !.pc = "loop"]
              ELSE LET backup == Head(c.queue)
                       min_interval == MinInterval(ps, ps[c.policy_idx])
                   IN  IF c.last = <<>>
                       THEN [c EXCEPT !.queue = Tail(@),
                                      !.last = LastKept(@, ts[backup]),
                                      !.kept = @ \cup {backup},
                                      !.slot = @ + 1,
                                      !.pc = "loop"]
                       ELSE IF TooClose(PyRound(c.last[1] - ts[backup], min_interval),
                                        PyRound(ps[c.policy_idx].interval, min_interval))
                            THEN [c EXCEPT !.queue = Tail(@),
                                           !.marked = @ \cup {backup},
                                           !.pc = AfterMark(c.slot).pc,
                                           !.slot = AfterMark(c.slot).slot]
                            ELSE [c EXCEPT !.queue = Tail(@),
                                           !.last = LastKept(@, ts[backup]),
                                           !.kept = @ \cup {backup},
                                           !.slot = @ + 1,
                                           !.pc = "loop"]

\* apply, lines 25-33 on an applier whose queue is q and last kept timestamp
\* is last: the start of a call on the records of sorted queue sorted.
CallStart(q, last, sorted) ==
    LET q1 == ClearQueue(q) \o sorted
    IN  [pc |-> IF QueueIsFalsy(q1) THEN "done" ELSE "loop",
         policy_idx |-> 1,
         slot |-> 0,
         queue |-> q1,
         last |-> ResetLastBackupDatetime(last),
         marked |-> {},
         kept |-> {}]

Ended(c) == c.pc \in {"done", "raised"}

RECURSIVE RunCall(_, _, _)
RunCall(ps, ts, c) == IF Ended(c) THEN c ELSE RunCall(ps, ts, CallStep(ps, ts, c))

\* apply(bs) alone on a newly constructed applier, run to its end.
RunAlone(ps, bs) == RunCall(ps, bs, CallStart(<<>>, <<>>, SortedBackups(bs)))

\* ------------------------------------------------------------ one applier, several collections
\* The collections of the later calls.
OtherLists == SeqsUpTo(0..MaxTime, MaxOther)

\* The caller builds fresh BackupFile records (data.py line 25:
\* _should_delete = False) and calls apply on the applier that has already
\* run: apply, lines 25-33, with whatever queue and last kept timestamp the
\* earlier call left.
ApplyOther ==
    /\ pc \in {"done", "raised"}
    /\ calls < MaxCalls
    /\ \E bs \in OtherLists :
        LET q1 == ClearQueue(backup_queue) \o SortedBackups(bs)
        IN  /\ backups' = bs
            /\ should_delete' = [i \in 1..Len(bs) |-> FALSE]
            /\ before' = [i \in 1..Len(bs) |-> FALSE]
            /\ verdict' = [i \in 1..Len(bs) |-> "Undecided"]
            /\ admitted' = [i \in 1..Len(bs) |-> 0]
            /\ backup_queue' = q1
            /\ pc' = IF QueueIsFalsy(q1) THEN "done" ELSE "loop"
    /\ last_backup_datetime' = ResetLastBackupDatetime(last_backup_datetime)
    /\ policy_idx' = 1
    /\ slot' = 0
    /\ calls' = calls + 1
    /\ earlier' = Append(earlier, [backups |-> backups, pc |-> pc,
                                   queue |-> backup_queue,
                                   last |-> last_backup_datetime])
    /\ UNCHANGED <<retention_policies, threads, appliers, manager, disk>>

InitReuse ==
    /\ retention_policies \in PolicyLists
    /\ backups \in SeqsUpTo(0..MaxTime, MaxRecords - 1)
    /\ should_delete = [i \in Records |-> FALSE]
    /\ backup_queue = <<>>
    /\ last_backup_datetime = <<>>
    /\ pc = "idle"
    /\ policy_idx = 0
    /\ slot = 0
    /\ verdict = [i \in Records |-> "Undecided"]
    /\ admitted = [i \in Records |-> 0]
    /\ calls = 0
    /\ before = should_delete
    /\ threads = <<>>
    /\ appliers = <<>>
    /\ manager = <<>>
    /\ disk = <<>>
    /\ earlier = <<>>

NextReuse ==
    \/ Next
    \/ ApplyOther

SpecReuse == InitReuse /\ [][NextReuse]_vars

\* ------------------------------------------------------------ two concurrent calls
\* Two threads call apply, each on its own collection: thread t owns the
\* positions threads[t].lo .. threads[t].hi of backups.  They use the same
\* applier or one applier each (threads[t].applier); the queue and the last
\* kept timestamp are fields of the applier (lines 22-23).  A thread switch
\* is taken between the steps of a call.
ConcLists == SeqsUpTo(0..MaxConcTime, MaxConcRecords)

Own(t) == SubSeq(backups, threads[t].lo, threads[t].hi)

\* sorted(backups, ...) of line 45 for the collection of thread t, as
\* positions of backups.
OwnSorted(t) ==
    LET sorted == SortedBackups(Own(t))
    IN  [p \in 1..Len(sorted) |-> sorted[p] + threads[t].lo - 1]

InitConcurrent ==
    /\ retention_policies \in PolicyLists
    /\ \E bs1, bs2 \in ConcLists : \E a \in 1..2 :
        /\ backups = bs1 \o bs2
        /\ threads = <<[pc |-> "idle", policy_idx |-> 0, slot |-> 0, applier |-> 1,
                        lo |-> 1, hi |-> Len(bs1)],
                       [pc |-> "idle", policy_idx |-> 0, slot |-> 0, applier |-> a,
                        lo |-> Len(bs1) + 1, hi |-> Len(bs1) + Len(bs2)]>>
    /\ appliers = [a \in 1..2 |-> [queue |-> <<>>, last |-> <<>>]]
    /\ should_delete = [i \in Records |-> FALSE]
    /\ backup_queue = <<>>
    /\ last_backup_datetime = <<>>
    /\ pc = "idle"
    /\ policy_idx = 0
    /\ slot = 0
    /\ verdict = [i \in Records |-> "Undecided"]
    /\ admitted = [i \in Records |-> 0]
    /\ calls = 0
    /\ before = should_delete
    /\ manager = <<>>
    /\ disk = <<>>
    /\ earlier = <<>>

\* The call of thread t after step c of it: its position goes to the thread,
\* the queue and the last kept timestamp to its applier, the marks to the
\* records.
Becomes(t, c) ==
    /\ threads' = [threads EXCEPT ![t].pc = c.pc,
                                  ![t].policy_idx = c.policy_idx,
                                  ![t].slot = c.slot]
    /\ appliers' = [appliers EXCEPT ![threads[t].applier] =
                                        [queue |-> c.queue, last |-> c.last]]
    /\ should_delete' = [i \in Records |-> should_delete[i] \/ i \in c.marked]
    /\ verdict' = [i \in Records |->
                       IF i \in c.marked THEN "Delete"
                       ELSE IF i \in c.kept THEN "Keep" ELSE verdict[i]]
    /\ UNCHANGED <<retention_policies, backups, backup_queue, last_backup_datetime,
                   pc, policy_idx, slot, admitted, calls, before, manager, disk,
                   earlier>>

\* apply, lines 25-33, by thread t.
ThreadApply(t) ==
    /\ threads[t].pc = "idle"
    /\ LET a == appliers[threads[t].applier]
       IN  Becomes(t, CallStart(a.queue, a.last, OwnSorted(t)))

\* One step of the running call of thread t: lines 33-34 and 49-78.
ThreadStep(t) ==
    /\ threads[t].pc \in {"loop", "find"}
    /\ LET a == appliers[threads[t].applier]
           c == [pc |-> threads[t].pc,
                 policy_idx |-> threads[t].policy_idx,
                 slot |-> threads[t].slot,
                 queue |-> a.queue,
                 last |-> a.last,
                 marked |-> {},
                 kept |-> {}]
       IN  Becomes(t, CallStep(retention_policies, backups, c))

NextConcurrent ==
    \/ \E t \in 1..2 : ThreadApply(t)
    \/ \E t \in 1..2 : ThreadStep(t)

SpecConcurrent == InitConcurrent /\ [][NextConcurrent]_vars

\* ------------------------------------------------------------ the BackupManager
\* config.py: the tiers of the manager, intervals in minutes.
backup_retention_policy ==
    << RetentionPolicy(1, 15, 2),
       RetentionPolicy(2, 30, 2),
       RetentionPolicy(3, 60, 2),
       RetentionPolicy(4, 2 * 60, 2),
       RetentionPolicy(5, 6 * 60, 2),
       RetentionPolicy(6, 24 * 60, 3),
       RetentionPolicy(7, 3 * 24 * 60, 2),
       RetentionPolicy(8, 7 * 24 * 60, 4) >>

\* The backup directory (it exists): file i carries in its name the timestamp
\* disk.timestamp[i], in minutes; disk.exists[i] tells whether it is still
\* there and disk.locked[i] whether unlink raises OSError for it.
DiskFiles == 1..Len(disk.timestamp)

DiskTimes == {15 * k : k \in 0..MaxDiskTime}

\* BackupFile(file_path, timestamp): _should_delete = False (data.py line 25)
\* and no attribute _keep ("unset"; once assigned, "True" or "False").
BackupFile(f, t) ==
    [file_path |-> f, timestamp |-> t, _should_delete |-> FALSE, _keep |-> "unset"]

\* scan_backups, lines 37-50: a record per file of the directory, sorted
\* newest first.
ScannedFiles(d) ==
    LET present == SelectSeq([i \in 1..Len(d.timestamp) |-> i], LAMBDA i : d.exists[i])
        stamps == [p \in 1..Len(present) |-> d.timestamp[present[p]]]
        order == SortedBackups(stamps)
    IN  [p \in 1..Len(present) |-> BackupFile(present[order[p]], stamps[order[p]])]

\* backup.should_delete(), line 111: should_delete is a property, so the
\* expression calls the bool it returns and raises TypeError.
CallShouldDelete(backup) == "TypeError"

\* A call of a method of the manager as a record: what it left in
\* self.backup_files, how it ended, what it returned, the files it unlinked
\* and the files it logged as KEEP and as DELETE.
Call(method, dry, files, outcome, value, unlinked, keep, delete) ==
    [method |-> method, dry |-> dry, backup_files |-> files, outcome |-> outcome,
     value |-> value, unlinked |-> unlinked, keep |-> keep, delete |-> delete]

\* apply_retention_policies, lines 80-99: an empty list returns at once;
\* otherwise _keep is set on every record and the construction of the
\* applier with three arguments (line 93) raises TypeError.
ApplyRetentionPoliciesCall(files) ==
    IF files = <<>>
    THEN Call("apply_retention_policies", FALSE, files, "returned", "None", {}, {}, {})
    ELSE Call("apply_retention_policies", FALSE,
              [p \in 1..Len(files) |-> [files[p] EXCEPT !._keep = "False"]],
              "TypeError", "None", {}, {}, {})

\* cleanup_old_backups, lines 108-119, from the record at position p on.
RECURSIVE CleanupFrom(_, _, _, _)
CleanupFrom(files, p, d, unlinked) ==
    IF p > Len(files)
    THEN Call("cleanup_old_backups", FALSE, files, "returned", Cardinality(unlinked),
              unlinked, {}, {})
    ELSE LET test == CallShouldDelete(files[p])
             f == files[p].file_path
         IN  IF test = "TypeError"
             THEN Call("cleanup_old_backups", FALSE, files, "TypeError", "None",
                       unlinked, {}, {})
             ELSE IF test /\ ~d.locked[f] /\ d.exists[f] /\ f \notin unlinked
                  THEN CleanupFrom(files, p + 1, d, unlinked \cup {f})
                  ELSE CleanupFrom(files, p + 1, d, unlinked)

CleanupOldBackupsCall(files, d) == CleanupFrom(files, 1, d, {})

\* dry_run, lines 121-140: reading _keep of a record that has none raises
\* AttributeError.
DryRunCall(files) ==
    LET paths(keep) == {files[p].file_path : p \in {q \in 1..Len(files) : files[q]._keep = keep}}
    IN  IF files = <<>>
        THEN Call("dry_run", TRUE, files, "returned", "None", {}, {}, {})
        ELSE IF \E p \in 1..Len(files) : files[p]._keep = "unset"
             THEN Call("dry_run", TRUE, files, "AttributeError", "None", {}, {}, {})
             ELSE Call("dry_run", TRUE, files, "returned", "None", {},
                       paths("True"), paths("False"))

\* run_cleanup, lines 142-153: scan_backups, apply_retention_policies, then
\* dry_run or cleanup_old_backups; an exception of a step leaves run_cleanup.
RunCleanupCall(dry, d) ==
    LET applied == ApplyRetentionPoliciesCall(ScannedFiles(d))
        last == IF dry THEN DryRunCall(applied.backup_files)
                ELSE CleanupOldBackupsCall(applied.backup_files, d)
    IN  IF applied.outcome # "returned"
        THEN [applied EXCEPT !.method = "run_cleanup", !.dry = dry]
        ELSE [last EXCEPT !.method = "run_cleanup", !.dry = dry]

\* The files a call unlinked are gone from the directory.
DiskAfter(d, c) ==
    [d EXCEPT !.exists = [i \in 1..Len(d.timestamp) |-> d.exists[i] /\ i \notin c.unlinked]]

\* What the methods of the manager leave alone.
applier_vars == <<retention_policies, backups, should_delete, backup_queue,
                  last_backup_datetime, pc, policy_idx, slot, verdict, admitted,
                  calls, before, threads, appliers, earlier>>

\* BackupManager(backup_dir), lines 16-21, on a directory of backup files.
InitManager ==
    /\ \E stamps \in SeqsUpTo(DiskTimes, MaxDiskFiles) :
       \E locked \in [1..Len(stamps) -> BOOLEAN] :
           disk = [timestamp |-> stamps,
                   exists |-> [i \in 1..Len(stamps) |-> TRUE],
                   locked |-> locked]
    /\ manager = Call("__init__", FALSE, <<>>, "returned", "None", {}, {}, {})
    /\ retention_policies = backup_retention_policy
    /\ backups = <<>>
    /\ should_delete = <<>>
    /\ backup_queue = <<>>
    /\ last_backup_datetime = <<>>
    /\ pc = "idle"
    /\ policy_idx = 0
    /\ slot = 0
    /\ verdict = <<>>
    /\ admitted = <<>>
    /\ calls = 0
    /\ before = <<>>
    /\ threads = <<>>
    /\ appliers = <<>>
    /\ earlier = <<>>

ScanBackups ==
    /\ manager' = Call("scan_backups", FALSE, ScannedFiles(disk), "returned", "None",
                       {}, {}, {})
    /\ UNCHANGED disk
    /\ UNCHANGED applier_vars

ApplyRetentionPolicies ==
    /\ manager' = ApplyRetentionPoliciesCall(manager.backup_files)
    /\ UNCHANGED disk
    /\ UNCHANGED applier_vars

\* The Selector applied to the records of the manager the way the test
\* applies it: RetentionPolicyApplier(logger, tiers).apply(backup_files).
SelectorMarks(files) ==
    RunAlone(backup_retention_policy, [p \in 1..Len(files) |-> files[p].timestamp]).marked

SelectorApply ==
    /\ LET files == manager.backup_files
           marks == SelectorMarks(files)
       IN  manager' = Call("apply", FALSE,
                           [p \in 1..Len(files) |->
                               [files[p] EXCEPT !._should_delete = @ \/ p \in marks]],
                           "returned", "None", {}, {}, {})
    /\ UNCHANGED disk
    /\ UNCHANGED applier_vars

CleanupOldBackups ==
    /\ manager' = CleanupOldBackupsCall(manager.backup_files, disk)
    /\ disk' = DiskAfter(disk, manager')
    /\ UNCHANGED applier_vars

DryRun ==
    /\ manager' = DryRunCall(manager.backup_files)
    /\ UNCHANGED disk
    /\ UNCHANGED applier_vars

RunCleanup ==
    /\ \E dry \in BOOLEAN : manager' = RunCleanupCall(dry, disk)
    /\ disk' = DiskAfter(disk, manager')
    /\ UNCHANGED applier_vars

NextManager ==
    \/ ScanBackups
    \/ ApplyRetentionPolicies
    \/ SelectorApply
    \/ CleanupOldBackups
    \/ DryRun
    \/ RunCleanup

SpecManager == InitManager /\ [][NextManager]_vars

\* ------------------------------------------------------------ delete, then apply again
\* The records a finished call left unmarked, in the caller's order.
Remaining ==
    LET F[n \in 0..Len(backups)] ==
            IF n = 0 THEN <<>>
            ELSE IF should_delete[n] THEN F[n - 1]
                 ELSE Append(F[n - 1], backups[n])
    IN  F[Len(backups)]

\* After apply has ended the marked records are removed, fresh records
\* (data.py line 25: _should_delete = False) are built for the remaining ones
\* and apply runs again with the same tiers, on a new applier or on the same
\* one (run_cleanup, lines 146-147, after the deletions of an earlier run).
DeleteAndApply ==
    /\ pc \in {"done", "raised"}
    /\ calls < MaxCalls
    /\ \E fresh \in BOOLEAN :
        LET bs == Remaining
            c == CallStart(IF fresh THEN <<>> ELSE backup_queue,
                           IF fresh THEN <<>> ELSE last_backup_datetime,
                           SortedBackups(bs))
        IN  /\ backups' = bs
            /\ should_delete' = [i \in 1..Len(bs) |-> FALSE]
            /\ before' = [i \in 1..Len(bs) |-> FALSE]
            /\ verdict' = [i \in 1..Len(bs) |-> "Undecided"]
            /\ admitted' = [i \in 1..Len(bs) |-> 0]
            /\ backup_queue' = c.queue
            /\ last_backup_datetime' = c.last
            /\ pc' = c.pc
            /\ policy_idx' = c.policy_idx
            /\ slot' = c.slot
    /\ calls' = calls + 1
    /\ earlier' = Append(earlier, [backups |-> backups, pc |-> pc,
                                   queue |-> backup_queue,
                                   last |-> last_backup_datetime])
    /\ UNCHANGED <<retention_policies, threads, appliers, manager, disk>>

NextPrune ==
    \/ Next
    \/ DeleteAndApply

SpecPrune == Init /\ [][NextPrune]_vars

\* ------------------------------------------------------------ properties
\* Processing order of the running call and the records it leaves kept.
Order == SortedBackups(backups)
Kept == SelectSeq(Order, LAMBDA i : ~should_delete[i])
Base == retention_policies[1].interval
KeepVerdicts == {i \in Records : verdict[i] = "Keep"}

\* Position of the first record that carries the maximum timestamp.
NewestFirstInInput ==
    CHOOSE i \in Records :
        /\ \A j \in Records : backups[j] <= backups[i]
        /\ \A j \in 1..(i - 1) : backups[j] < backups[i]

\* C1 (totality): when apply returns on a non-empty collection with a non-empty
\* tier list, the queue is empty and every record was pulled and classified
\* Keep or Delete, Delete being exactly the records marked should_delete.
C1_Totality ==
    (pc = "done" /\ backups # <<>> /\ retention_policies # <<>>) =>
        /\ backup_queue = <<>>
        /\ \A i \in Records :
            /\ verdict[i] \in {"Keep", "Delete"}
            /\ (verdict[i] = "Delete") = should_delete[i]

C1_Witness ==
    /\ pc = "done"
    /\ calls = 1
    /\ Len(backups) >= 3
    /\ Len(retention_policies) = 2
    /\ \E i, j \in Records : verdict[i] = "Keep" /\ verdict[j] = "Delete"

\* C2 (newest always kept): after apply on a non-empty collection, with any
\* tier list, the record with the maximum timestamp that is earliest in the
\* input is not marked should_delete.
C2_NewestKept ==
    (pc = "done" /\ backups # <<>>) => ~should_delete[NewestFirstInInput]

C2_Witness ==
    /\ pc = "done"
    /\ Len(retention_policies) = 2
    /\ retention_policies[1].keep_count = 0
    /\ \E i, j \in Records :
        /\ i < j
        /\ backups[i] = backups[j]
        /\ \A l \in Records : backups[l] <= backups[i]
        /\ ~should_delete[i]
        /\ should_delete[j]

\* C3 (canonical fixture): on real_backup_names with the tiers of the test,
\* apply keeps exactly the records the fixture flags True and marks the others.
C3_Fixture ==
    (pc = "done" /\ backups = real_backups /\ retention_policies = retention_policy) =>
        \A i \in Records : should_delete[i] = ~real_backup_names[i][2]

C3_Witness ==
    /\ pc = "done"
    /\ backups = real_backups
    /\ retention_policies = retention_policy
    /\ Cardinality({i \in Records : ~should_delete[i]}) = 7
    /\ backup_queue = <<>>

\* C4 (spacing monotonicity): after apply, two consecutive kept records that
\* were both admitted under tier k are at least round(tiers[k].interval / base)
\* base units apart, the gap rounded in base units.
C4_Spacing ==
    pc = "done" =>
        \A p \in 2..Len(Kept) :
            LET a == Kept[p - 1]
                b == Kept[p]
                k == admitted[b]
            IN  (k # 0 /\ admitted[a] = k) =>
                    PyRound(backups[a] - backups[b], Base) >=
                        PyRound(retention_policies[k].interval, Base)

C4_Witness ==
    /\ pc = "done"
    /\ \E p \in 2..Len(Kept) :
        /\ admitted[Kept[p]] = 2
        /\ admitted[Kept[p - 1]] = 2
        /\ PyRound(retention_policies[2].interval, Base) >= 1
    /\ \E i \in Records : verdict[i] = "Delete" /\ admitted[i] = 2

\* Sum of keep_count over the tiers 1..k.
RECURSIVE CumKeep(_, _)
CumKeep(ps, k) == IF k = 0 THEN 0 ELSE ps[k].keep_count + CumKeep(ps, k - 1)

\* The tier of position i (0-based) of the kept records: C_(k-1) <= i < C_k,
\* and the last tier from C_(last-1) on.
PositionalTier(ps, i) ==
    IF \E k \in 1..(Len(ps) - 1) : CumKeep(ps, k - 1) <= i /\ i < CumKeep(ps, k)
    THEN CHOOSE k \in 1..(Len(ps) - 1) : CumKeep(ps, k - 1) <= i /\ i < CumKeep(ps, k)
    ELSE Len(ps)

\* C5 (cumulative tiers by position): after apply with a non-empty tier list,
\* the i-th kept record (i >= 1, newest first) was admitted under the tier of
\* its position and is that tier's rounded spacing away from the kept record
\* before it.
C5_CumulativeByPosition ==
    (pc = "done" /\ retention_policies # <<>>) =>
        \A p \in 2..Len(Kept) :
            LET k == PositionalTier(retention_policies, p - 1)
            IN  /\ admitted[Kept[p]] = k
                /\ PyRound(backups[Kept[p - 1]] - backups[Kept[p]], Base) >=
                       PyRound(retention_policies[k].interval, Base)

\* A tier list as the caller is meant to supply it: non-empty, distinct policy
\* objects, positive non-decreasing intervals, every keep_count at least 1.
OrdinaryTiers(ps) ==
    /\ ps # <<>>
    /\ \A k \in 1..Len(ps) : ps[k].obj = k /\ ps[k].interval >= 1 /\ ps[k].keep_count >= 1
    /\ \A k \in 2..Len(ps) : ps[k].interval >= ps[k - 1].interval

RECURSIVE CumKeepBounded(_, _)
CumKeepBounded(ps, k) ==
    IF k = 0 THEN 0
    ELSE (IF IsLastPolicy(ps, k) THEN 0 ELSE ps[k].keep_count) + CumKeepBounded(ps, k - 1)

C7_Idempotence ==
    (calls >= 2 /\ pc = "done") => should_delete = before

C7_Witness ==
    /\ calls = 2
    /\ pc = "done"
    /\ Len(backups) >= 3
    /\ \E i, j \in Records : should_delete[i] /\ ~should_delete[j]
    /\ \E i \in Records : verdict[i] = "Delete"

\* A tier list is malformed when it is empty or its intervals decrease.
Malformed(ps) ==
    \/ ps = <<>>
    \/ \E k \in 2..Len(ps) : ps[k].interval < ps[k - 1].interval

\* C8 (malformed tier list rejected): apply with a malformed tier list does
\* not return normally and pulls or marks no record.
C8_MalformedRejected ==
    Malformed(retention_policies) =>
        /\ pc # "done"
        /\ \A i \in Records : verdict[i] = "Undecided" /\ ~should_delete[i]

\* C9 (atomic failure): when apply raises, no record's should_delete differs
\* from its value when the call started.
C9_AtomicFailure ==
    pc = "raised" => should_delete = before

C9_Witness ==
    /\ pc = "raised"
    /\ Len(backups) >= 2
    /\ \E i \in Records : verdict[i] = "Keep"
    /\ backup_queue # <<>>

\* C10 (empty input): apply on zero records does not raise, leaves the queue
\* empty and the last kept timestamp unset, and no tier completes a repetition.
C10_EmptyInput ==
    (backups = <<>> /\ calls >= 1) =>
        /\ pc # "raised"
        /\ backup_queue = <<>>
        /\ last_backup_datetime = <<>>
        /\ slot = 0

C10_Witness ==
    /\ backups = <<>>
    /\ pc = "done"
    /\ Len(retention_policies) = 2
    /\ retention_policies[1].interval = 0
    /\ retention_policies[1].keep_count >= 1

\* Newer(a, b): record a comes before record b in the processing order, newest
\* first and, among equal timestamps, earliest in the input first.
Newer(a, b) == backups[a] > backups[b] \/ (backups[a] = backups[b] /\ a < b)

NonDecreasing(ps) == \A k \in 2..Len(ps) : ps[k].interval >= ps[k - 1].interval

\* C11 (stable tie-break): the queue holds the records newest first with ties
\* in input order, every record already pulled precedes the queued ones in that
\* order, and after apply with a non-empty tier list of non-decreasing
\* intervals only the earliest-in-input record of a group sharing one
\* timestamp can be kept: every other record of the group is marked.
C11_StableTieBreak ==
    /\ \A p \in 1..(Len(backup_queue) - 1) : Newer(backup_queue[p], backup_queue[p + 1])
    /\ \A i \in Records : \A p \in 1..Len(backup_queue) :
           verdict[i] # "Undecided" => Newer(i, backup_queue[p])
    /\ (pc = "done" /\ retention_policies # <<>> /\ NonDecreasing(retention_policies)) =>
           \A i, j \in Records : (i < j /\ backups[i] = backups[j]) => should_delete[j]

C11_Witness ==
    /\ pc = "done"
    /\ NonDecreasing(retention_policies)
    /\ Len(retention_policies) = 2
    /\ \E i, j, l \in Records :
        /\ i < j /\ j < l
        /\ backups[i] = backups[j] /\ backups[j] = backups[l]
        /\ verdict[i] = "Keep" /\ verdict[j] = "Delete" /\ verdict[l] = "Delete"
    /\ \E i \in Records : \E j \in 1..(i - 1) : backups[j] < backups[i]

\* Tier lists with positive non-decreasing intervals and positive keep counts;
\* the same policy object may stand at several positions.
PositiveTiers(ps) ==
    /\ ps # <<>>
    /\ \A k \in 1..Len(ps) : ps[k].interval >= 1 /\ ps[k].keep_count >= 1
    /\ \A k \in 2..Len(ps) : ps[k].interval >= ps[k - 1].interval

\* C16 (per-tier slot bound): a tier at a non-final position of the list keeps
\* at most keep_count records while it is active, also when the same tier
\* appears more than once in the list.
C16_PerTierSlotBound ==
    PositiveTiers(retention_policies) =>
    \A k \in 1..(Len(retention_policies) - 1) :
        Cardinality({i \in KeepVerdicts : admitted[i] = k}) <=
            retention_policies[k].keep_count

\* The comparison of lines 71-73 for record b, written out on the state.
ReachesRequired(b) ==
    PyRound(last_backup_datetime[1] - backups[b], Base) >=
        PyRound(retention_policies[policy_idx].interval, Base)

Pulls(b) ==
    /\ pc = "find"
    /\ backup_queue # <<>>
    /\ b = Head(backup_queue)
    /\ backup_queue' = Tail(backup_queue)
    /\ pc' # "raised"

\* C17 (no over-deletion): a record becomes Delete only in the step that pulls
\* it while a last kept timestamp exists and its rounded distance to it is
\* below the active tier's rounded interval; a pulled record that reaches the
\* required units is kept; should_delete changes only so.  Hence every marked
\* record has an unmarked record at least as new, and after apply on a
\* non-empty collection some record is unmarked.
C17_NoOverDeletion ==
    /\ [][\A i \in Records :
             /\ (verdict[i] # "Delete" /\ verdict'[i] = "Delete") =>
                    /\ Pulls(i)
                    /\ last_backup_datetime # <<>>
                    /\ Base # 0
                    /\ ~ReachesRequired(i)
             /\ (Pulls(i) /\ last_backup_datetime # <<>> /\ Base # 0 /\ ReachesRequired(i)) =>
                    (verdict'[i] = "Keep" /\ ~should_delete'[i])
             /\ (should_delete'[i] # should_delete[i]) => verdict'[i] = "Delete"]_vars
    /\ [](\A i \in Records :
             should_delete[i] =>
                 \E j \in Records : ~should_delete[j] /\ backups[j] >= backups[i])
    /\ []((pc = "done" /\ backups # <<>>) => \E j \in Records : ~should_delete[j])

C17_Witness ==
    /\ pc = "done"
    /\ calls = 1
    /\ \E i, j \in Records :
        /\ verdict[i] = "Delete" /\ verdict[j] = "Keep"
        /\ admitted[i] = 2 /\ admitted[j] = 2
        /\ backups[j] < backups[i]

\* A call is running between the queue initialisation and its end.
Running == pc \in {"loop", "find"}

\* A natural number that every step of a running call decreases.
Rank ==
    IF Running
    THEN 3 * Len(backup_queue) + 3 * (Len(retention_policies) + 1 - policy_idx) +
         (IF pc = "loop" THEN 1 ELSE 0)
    ELSE 0

\* C18 (termination): a running call can always take a step, every step of it
\* decreases Rank (a natural number), so the call ends; a repetition that
\* returns a backup removes at least one record from the queue, a repetition on
\* the empty queue ends the tier, and once the queue is empty no verdict
\* changes for the rest of the call.
C18_Termination ==
    /\ [](Running => (Rank >= 0 /\ ENABLED Next))
    /\ [][Running => Rank' < Rank]_vars
    /\ [][(pc = "find" /\ pc' = "loop" /\ backup_queue # <<>>) =>
              (slot' = slot + 1 /\ Len(backup_queue') < Len(backup_queue))]_vars
    /\ [][(pc = "find" /\ backup_queue = <<>>) =>
              (pc' = "loop" /\ policy_idx' = policy_idx + 1)]_vars
    /\ [][(Running /\ backup_queue = <<>>) =>
              (should_delete' = should_delete /\ verdict' = verdict)]_vars

C18_Witness ==
    /\ pc = "done"
    /\ Len(backups) = MaxRecords
    /\ Len(retention_policies) = 2
    /\ Cardinality({i \in KeepVerdicts : admitted[i] = 2}) >
           retention_policies[2].keep_count
    /\ \E i \in Records : verdict[i] = "Delete"

\* C20 (rounding tolerance): when the first tier's interval is positive and
\* every tier interval is a multiple of it, a record kept under tier k lies at
\* least tiers[k].interval minus half the base unit before the record kept
\* just before it.
Multiples(ps) ==
    /\ ps # <<>>
    /\ ps[1].interval >= 1
    /\ \A k \in 1..Len(ps) : ps[k].interval % ps[1].interval = 0

C20_RoundingTolerance ==
    (pc = "done" /\ Multiples(retention_policies)) =>
        \A p \in 2..Len(Kept) :
            LET k == admitted[Kept[p]]
            IN  k # 0 =>
                    2 * (backups[Kept[p - 1]] - backups[Kept[p]]) >=
                        2 * retention_policies[k].interval - Base

C20_Witness ==
    /\ pc = "done"
    /\ Multiples(retention_policies)
    /\ Base >= 2
    /\ \E p \in 2..Len(Kept) :
        LET k == admitted[Kept[p]]
        IN  /\ k # 0
            /\ backups[Kept[p - 1]] - backups[Kept[p]] < retention_policies[k].interval
    /\ \E i \in Records : verdict[i] = "Delete"

\* C12 (no state carried across invocations): when a call of an applier that
\* has run earlier calls on other collections ends, it has ended the same way
\* and has given the fresh records the same verdicts as apply alone on a new
\* applier; before the first pull its queue holds the new records only and its
\* last kept timestamp is unset.
C12_NoCarriedState ==
    /\ (earlier # <<>> /\ pc \in {"done", "raised"}) =>
           LET alone == RunAlone(retention_policies, backups)
           IN  /\ pc = alone.pc
               /\ \A i \in Records :
                      /\ should_delete[i] = (i \in alone.marked)
                      /\ (verdict[i] = "Keep") = (i \in alone.kept)
                      /\ (verdict[i] = "Delete") = (i \in alone.marked)
    /\ (earlier # <<>> /\ Running /\ \A i \in Records : verdict[i] = "Undecided") =>
           /\ backup_queue = SortedBackups(backups)
           /\ last_backup_datetime = <<>>

C12_Witness ==
    /\ pc = "done"
    /\ earlier # <<>>
    /\ earlier[Len(earlier)].pc = "done"
    /\ earlier[Len(earlier)].last # <<>>
    /\ earlier[Len(earlier)].backups # backups
    /\ \E i, j \in Records : verdict[i] = "Delete" /\ verdict[j] = "Keep"

\* C19 (fixed point under deletion): with a non-empty tier list, when the
\* records marked by apply have been removed and apply runs again with the
\* same tiers on fresh copies of the remaining records, no record is marked,
\* at any step of that call.
C19_FixedPoint ==
    (earlier # <<>> /\ retention_policies # <<>>) =>
        \A i \in Records : ~should_delete[i] /\ verdict[i] # "Delete"

C19_Witness ==
    /\ pc = "done"
    /\ earlier # <<>>
    /\ Len(retention_policies) = 2
    /\ Len(earlier[1].backups) > Len(backups)
    /\ \A i \in Records : verdict[i] = "Keep"
    /\ \E i, j \in Records : admitted[i] = 1 /\ admitted[j] = 2

\* C13 (concurrent calls are safe): when two concurrent apply calls on
\* disjoint non-empty collections have both ended, each has ended the way it
\* ends alone and has marked exactly the records of its collection that it
\* marks alone, also when both calls are made on the same applier.  It is
\* stated here for ordinary tier lists, where it already fails.
C13_ConcurrentSafe ==
    (/\ OrdinaryTiers(retention_policies)
     /\ \A t \in 1..2 : threads[t].hi >= threads[t].lo
     /\ \A t \in 1..2 : threads[t].pc \in {"done", "raised"}) =>
        \A t \in 1..2 :
            LET alone == RunAlone(retention_policies, Own(t))
            IN  /\ threads[t].pc = alone.pc
                /\ \A i \in threads[t].lo..threads[t].hi :
                       should_delete[i] = ((i - threads[t].lo + 1) \in alone.marked)

\* The same for two calls on two appliers.
SeparateAppliersSafe ==
    (threads[1].applier # threads[2].applier) => C13_ConcurrentSafe

\* The files of the manager's list that the Selector has marked.
MarkedFiles ==
    {manager.backup_files[p].file_path :
        p \in {q \in 1..Len(manager.backup_files) : manager.backup_files[q]._should_delete}}

\* C14 (deletion failure does not abort the run): cleanup_old_backups returns;
\* every marked file whose unlink does not fail has been deleted, whatever
\* failed before it, and the returned count is the number of files deleted.
C14_DeletionFailureSkipped ==
    (manager.method = "cleanup_old_backups" /\ manager.backup_files # <<>>) =>
        /\ manager.outcome = "returned"
        /\ \A f \in MarkedFiles : ~disk.locked[f] => ~disk.exists[f]
        /\ manager.value = Cardinality(manager.unlinked)

\* C15 (dry run): run_cleanup(dry_run=True) on a directory with backup files
\* returns without deleting a file, and the files it lists as DELETE are
\* exactly the files the Selector marks for the scanned records.
C15_DryRunPartition ==
    (manager.method = "run_cleanup" /\ manager.dry /\ \E f \in DiskFiles : disk.exists[f]) =>
        /\ manager.outcome = "returned"
        /\ manager.unlinked = {}
        /\ LET files == ScannedFiles(disk)
               marks == SelectorMarks(files)
           IN  /\ manager.delete = {files[p].file_path : p \in marks}
               /\ manager.keep = {files[p].file_path : p \in (1..Len(files)) \ marks}

\* What does hold of the manager: no method ever deletes a file.
NeverDeletes == \A f \in DiskFiles : disk.exists[f]

TypeOK ==
    /\ pc \in {"idle", "loop", "find", "done", "raised"}
    /\ calls \in 0..MaxCalls
    /\ Len(last_backup_datetime) <= 1
    /\ \A i \in Records : admitted[i] \in 0..Len(retention_policies)
====
